---- MODULE Spec2Model ----
(***************************************************************************)
(* A model of the two scripts of the repository:                           *)
(*   install_cursor.py    the AppImage installer (derive_version, the      *)
(*                        steps of main, one or two instances running)     *)
(*   setup-gpg-config.py  the Git GPG config writer (ConfigCommand)        *)
(* Strings are sequences of one-character strings, so that the regular     *)
(* expression search, the path handling and the substring test of the      *)
(* scripts are computed the way the code computes them.                    *)
(***************************************************************************)
EXTENDS Integers, Sequences, FiniteSets, TLC

VARIABLES
    \* ---- install_cursor.py: derive_version on its own
    vname,      \* the file name handed to derive_version
    vres,       \* its result
    vdone,      \* derive_version has returned
    \* ---- install_cursor.py: the file system the installer works on
    dirs,       \* version label -> the tree at <install_root>/<version>, or NoDir
    current,    \* the target of <install_root>/current, or NoLink
    wrapper,    \* ~/.local/bin/<name>-launch is written
    icon,       \* the bundle whose .DirIcon was copied to the icon theme, or NoFile
    desktop,    \* ~/.local/share/applications/<name>.desktop is written
    rootDir,    \* <install_root> is a directory
    parentDir,  \* the parent of <install_root> is a directory
    work,       \* the bundle copied to ~/.cache/cursor-installer/work, or NoFile
    \* ---- install_cursor.py: each running instance of main
    pc,         \* instance -> the step of main it is at
    arg,        \* instance -> its command line (and whether the bundle exists)
    target,     \* instance -> the version label extract_appimage returned
    willUnlink, \* instance -> the result of the test of line 138
    xres,       \* instance -> how the bundle's self-extraction went
    exit,       \* instance -> exit status of its last run, or NoExit
    err,        \* instance -> what ended its last run
    cmds,       \* instance -> external commands its run has invoked
    warn,       \* instance -> warnings its run has printed
    touched,    \* instance -> what its run created, replaced or removed
    budget,     \* instance -> runs it may still start
    env,        \* what surrounds the runs: the command lines they may be given, the
                \* outcomes external commands may have, what findmnt may report
    snap,       \* the file system when the latest run started
    prev,       \* how the run before the latest one ended
    last,       \* how the latest finished run ended
    overlap,    \* two instances have been inside main at the same time
    \* ---- setup-gpg-config.py
    gpc,        \* the step of ConfigCommand.run
    ginput,     \* the answers given to the prompts of this run
    gitconfig,  \* ~/.gitconfig: whether it exists, and its content
    frags,      \* path -> the fragment file at that path: whether it exists, its content
    gcfg0,      \* the content of ~/.gitconfig before the first run
    gruns,      \* runs completed
    gdirs,      \* the folders of the completed runs
    glast,      \* folder -> the answers of the latest completed run for it, or NoRun
    gout        \* what the latest run printed about ~/.gitconfig

vvars == <<vname, vres, vdone>>
fsvars == <<dirs, current, wrapper, icon, desktop, rootDir, parentDir, work>>
prvars == <<pc, arg, target, willUnlink, xres, exit, err, cmds, warn, touched, budget>>
hvars == <<env, snap, prev, last, overlap>>
ivars == <<fsvars, prvars, hvars>>
gvars == <<gpc, ginput, gitconfig, frags, gcfg0, gruns, gdirs, glast, gout>>
vars == <<vvars, ivars, gvars>>

(***************************************************************************)
(* Strings                                                                 *)
(***************************************************************************)
Digits == {"0", "1", "2", "3", "4", "5", "6", "7", "8", "9"}

\* s[i..j] in Python's sense s[i-1:j]; empty when j < i
Slice(s, i, j) == SubSeq(s, i, j)

\* Python's  t in s  for strings
Contains(s, t) ==
    \E i \in 1..(Len(s) - Len(t) + 1) : SubSeq(s, i, i + Len(t) - 1) = t

(***************************************************************************)
(* install_cursor.py: derive_version                                       *)
(*   m = re.search(r"(\d+\.\d+\.\d+)", appimage_name)                      *)
(*   return m.group(1) if m else "unknown"                                 *)
(* The search tries each start position from the left; at a position each  *)
(* \d+ takes as many digits as it can and gives them back one by one when  *)
(* what follows does not match.  A match is reported by the position       *)
(* after its last character, 0 meaning no match.                           *)
(***************************************************************************)
Unknown == <<"u", "n", "k", "n", "o", "w", "n">>

IsDigit(s, i) == i >= 1 /\ i <= Len(s) /\ s[i] \in Digits

RECURSIVE DigitRun(_, _)
DigitRun(s, i) == IF IsDigit(s, i) THEN 1 + DigitRun(s, i + 1) ELSE 0

IsDot(s, i) == i >= 1 /\ i <= Len(s) /\ s[i] = "."

\* the third \d+ : greedy, nothing follows it
MatchG3(s, i, k) == IF k = 0 THEN 0 ELSE i + k

\* the second \d+ then \. then the third group
RECURSIVE MatchG2(_, _, _)
MatchG2(s, i, k) ==
    IF k = 0 THEN 0
    ELSE LET r == IF IsDot(s, i + k)
                  THEN MatchG3(s, i + k + 1, DigitRun(s, i + k + 1))
                  ELSE 0
         IN  IF r # 0 THEN r ELSE MatchG2(s, i, k - 1)

\* the first \d+ then \. then the rest
RECURSIVE MatchG1(_, _, _)
MatchG1(s, i, k) ==
    IF k = 0 THEN 0
    ELSE LET r == IF IsDot(s, i + k)
                  THEN MatchG2(s, i + k + 1, DigitRun(s, i + k + 1))
                  ELSE 0
         IN  IF r # 0 THEN r ELSE MatchG1(s, i, k - 1)

MatchAt(s, i) == MatchG1(s, i, DigitRun(s, i))

\* re.search: the first start position, from the left, with a match
RECURSIVE SearchFrom(_, _)
SearchFrom(s, i) ==
    IF i > Len(s) THEN <<0, 0>>
    ELSE IF MatchAt(s, i) # 0 THEN <<i, MatchAt(s, i)>>
    ELSE SearchFrom(s, i + 1)

\* a plausible slip: the scan keeps the last match instead of the first
RECURSIVE SearchLast(_, _)
SearchLast(s, i) ==
    IF i > Len(s) THEN <<0, 0>>
    ELSE LET r == SearchLast(s, i + 1)
         IN  IF r[1] # 0 THEN r
             ELSE IF MatchAt(s, i) # 0 THEN <<i, MatchAt(s, i)>> ELSE <<0, 0>>

derive_version_last(appimage_name) ==
    LET m == SearchLast(appimage_name, 1)
    IN  IF m[1] # 0 THEN Slice(appimage_name, m[1], m[2] - 1) ELSE Unknown

derive_version(appimage_name) ==
    LET m == SearchFrom(appimage_name, 1)
    IN  IF m[1] # 0 THEN Slice(appimage_name, m[1], m[2] - 1) ELSE Unknown

(***************************************************************************)
(* install_cursor.py: the installer                                        *)
(***************************************************************************)
NoLink == <<>>
NoFile == <<>>
NoVersion == <<>>

MaxRuns == 2

\* The bundles a run may be given: the file name, and whether the bundle
\* holds chrome-sandbox and .DirIcon.
Bundles ==
    { [name |-> <<"c", "-", "1", ".", "0", ".", "1">>, sandbox |-> TRUE,  dirIcon |-> TRUE],
      [name |-> <<"c", "-", "1", ".", "0", ".", "2">>, sandbox |-> TRUE,  dirIcon |-> FALSE],
      [name |-> <<"c", "u", "r">>,                     sandbox |-> FALSE, dirIcon |-> TRUE] }

Versions == { derive_version(b.name) : b \in Bundles }

Procs == {1, 2}

\* subprocess.run(..., check=True): the command ran and exited 0, ran and
\* exited non-zero (CalledProcessError), or could not be started
\* (FileNotFoundError, an OSError)
Outcomes == {"ok", "nonzero", "nolaunch"}

\* the exception RUN raises for an outcome
Raised(o) == IF o = "nonzero" THEN "CalledProcessError"
             ELSE IF o = "nolaunch" THEN "FileNotFoundError"
             ELSE "none"

\* whether an  except <handler>  clause catches it: FileNotFoundError is an
\* OSError, not a CalledProcessError
Catches(handler, e) ==
    \/ handler = "Exception" /\ e # "none"
    \/ handler = e

\* two RUNs in a row: the second runs only when the first returned
FirstFailure(o1, o2) == IF o1 # "ok" THEN o1 ELSE o2

\* <install_root>/<version>: no directory, an empty directory, the copied tree
\* (AppRun, the entry point; rest, every other entry of the bundle, among
\* them chrome-sandbox and .DirIcon when the bundle has them)
NoDir == [dir |-> FALSE, src |-> <<>>, apprun |-> FALSE, rest |-> FALSE,
          sbx |-> "none", dirIcon |-> FALSE]
EmptyDir == [dir |-> TRUE, src |-> <<>>, apprun |-> FALSE, rest |-> FALSE,
             sbx |-> "none", dirIcon |-> FALSE]

Complete(t) == t.dir /\ t.apprun /\ t.rest

\* shutil.copytree copies the entries of the extracted bundle one after
\* the other into the directory it made: here AppRun
WithAppRun(t, b) == [t EXCEPT !.src = b.name, !.apprun = TRUE]

\* a plausible slip: the copy stops after the first entry
WithRest_skipped(t, b) == t

\* and here the other entries: copy2 keeps the mode of chrome-sandbox, the
\* owner is the user running the script
WithRest(t, b) == [t EXCEPT !.src = b.name, !.rest = TRUE,
                            !.sbx = IF b.sandbox THEN "user" ELSE "none",
                            !.dirIcon = b.dirIcon]

FullTree(b) == WithRest(WithAppRun(EmptyDir, b), b)

\* a plausible slip: every version is installed into one fixed directory
target_dir_fixed(version) == Unknown

\* target_dir = dest_dir / version, as the key of dirs
target_dir(version) == version

\* a plausible slip: the directory check is left out
ExtractError_nocheck(o, made) == Raised(o)

\* what ends extract_appimage before it touches dest_dir: RUN is outside
\* any try, then the test of squashfs-root
ExtractError(o, made) ==
    IF Raised(o) # "none" THEN Raised(o)
    ELSE IF ~made THEN "ExtractionFailed"
    ELSE "none"

\* a plausible slip: an existing version directory is not removed first
NeedsRmtree_never(t) == FALSE

\* if target_dir.exists():
NeedsRmtree(t) == t.dir

\* a plausible slip: the existing link is not removed first
NeedsUnlink_never(cur) == FALSE

\* current.exists() or current.is_symlink()
NeedsUnlink(cur) == cur # NoLink

\* a plausible slip: the check of the bundle comes after the first steps
AfterArgs_nocheck(exists) == "apt"

\* if not appimage.exists(): ... sys.exit(1)
AfterArgs(exists) == IF exists THEN "apt" ELSE "exit1"

FsNow == [dirs |-> dirs, current |-> current, wrapper |-> wrapper, icon |-> icon,
          desktop |-> desktop, rootDir |-> rootDir, parentDir |-> parentDir,
          work |-> work]

\* parse_args: the bundle (and whether the file exists), --no-apt,
\* --make-desktop=yes|no
CommandLines == [appimage : Bundles, exists : BOOLEAN, no_apt : BOOLEAN,
                 make_desktop : BOOLEAN]

\* the plain ones: an existing bundle that holds chrome-sandbox, --no-apt,
\* --make-desktop=no
ConcLines == { l \in CommandLines :
                 /\ l.exists /\ l.no_apt /\ ~l.make_desktop
                 /\ l.appimage.sandbox }

\* the command lines env.lines allows
Lines(which) == IF which = "any" THEN CommandLines
                ELSE IF which = "plain" THEN ConcLines
                ELSE {}

NoArg == [appimage |-> CHOOSE b \in Bundles : TRUE, exists |-> FALSE,
          no_apt |-> FALSE, make_desktop |-> FALSE]
NoRes == [o |-> "none", made |-> FALSE]
NoLast == [ok |-> FALSE, ver |-> NoVersion]

EmptyFs ==
    /\ dirs = [v \in Versions |-> NoDir]
    /\ current = NoLink
    /\ wrapper = FALSE
    /\ icon = NoFile
    /\ desktop = FALSE
    /\ rootDir = FALSE
    /\ parentDir = FALSE
    /\ work = NoFile

\* what one successful run for bundle b leaves on an empty file system
Installed(b) ==
    [dirs |-> [v \in Versions |->
                 IF v = derive_version(b.name)
                 THEN [FullTree(b) EXCEPT !.sbx = IF b.sandbox THEN "root4755" ELSE "none"]
                 ELSE NoDir],
     current |-> derive_version(b.name), wrapper |-> TRUE,
     icon |-> IF b.dirIcon THEN b.name ELSE NoFile, desktop |-> TRUE,
     rootDir |-> TRUE, parentDir |-> TRUE, work |-> b.name]

InstalledFs(b) ==
    /\ dirs = Installed(b).dirs
    /\ current = Installed(b).current
    /\ wrapper = Installed(b).wrapper
    /\ icon = Installed(b).icon
    /\ desktop = Installed(b).desktop
    /\ rootDir = Installed(b).rootDir
    /\ parentDir = Installed(b).parentDir
    /\ work = Installed(b).work

ProcInit(active, runs) ==
    /\ pc = [p \in Procs |-> IF p \in active THEN "idle" ELSE "off"]
    /\ arg = [p \in Procs |-> NoArg]
    /\ target = [p \in Procs |-> NoVersion]
    /\ willUnlink = [p \in Procs |-> FALSE]
    /\ xres = [p \in Procs |-> NoRes]
    /\ exit = [p \in Procs |-> "none"]
    /\ err = [p \in Procs |-> "none"]
    /\ cmds = [p \in Procs |-> {}]
    /\ warn = [p \in Procs |-> {}]
    /\ touched = [p \in Procs |-> {}]
    /\ budget = [p \in Procs |-> IF p \in active THEN runs ELSE 0]
    /\ prev = NoLast
    /\ last = NoLast
    /\ overlap = FALSE
    /\ snap = FsNow

InstallOff ==
    /\ EmptyFs
    /\ ProcInit({}, 0)
    /\ env = [lines |-> "none", outcomes |-> {}, nosuid |-> {}]

VerOff == vname = <<>> /\ vres = <<>> /\ vdone = FALSE

Running(p) == pc[p] \notin {"off", "idle", "done"}

\* an uncaught exception, or sys.exit(1): the run of p ends with status 1
Ends(p, e) ==
    /\ pc' = [pc EXCEPT ![p] = "done"]
    /\ exit' = [exit EXCEPT ![p] = "nonzero"]
    /\ err' = [err EXCEPT ![p] = e]
    /\ last' = NoLast

\* the run of p goes on to step s
Goes(p, s) ==
    /\ pc' = [pc EXCEPT ![p] = s]
    /\ UNCHANGED <<exit, err, last>>

Step(p, e, s) == IF e # "none" THEN Ends(p, e) ELSE Goes(p, s)

\* main, lines 197-198: the command line is parsed
StartRun(p, b, ex, na, md) ==
    /\ pc[p] \in {"idle", "done"}
    /\ budget[p] > 0
    /\ [appimage |-> b, exists |-> ex, no_apt |-> na, make_desktop |-> md] \in Lines(env.lines)
    /\ budget' = [budget EXCEPT ![p] = @ - 1]
    /\ arg' = [arg EXCEPT ![p] = [appimage |-> b, exists |-> ex,
                                  no_apt |-> na, make_desktop |-> md]]
    /\ pc' = [pc EXCEPT ![p] = "args"]
    /\ exit' = [exit EXCEPT ![p] = "none"]
    /\ err' = [err EXCEPT ![p] = "none"]
    /\ cmds' = [cmds EXCEPT ![p] = {}]
    /\ warn' = [warn EXCEPT ![p] = {}]
    /\ touched' = [touched EXCEPT ![p] = {}]
    /\ target' = [target EXCEPT ![p] = NoVersion]
    /\ willUnlink' = [willUnlink EXCEPT ![p] = FALSE]
    /\ xres' = [xres EXCEPT ![p] = NoRes]
    /\ snap' = FsNow
    /\ prev' = last
    /\ overlap' = (overlap \/ \E q \in Procs \ {p} : Running(q))
    /\ UNCHANGED <<fsvars, env, last, vvars, gvars>>

\* main, lines 199-206: the bundle must exist
CheckAppimage(p) ==
    /\ pc[p] = "args"
    /\ IF AfterArgs(arg[p].exists) = "exit1"
       THEN Ends(p, "NotFound")
       ELSE Goes(p, AfterArgs(arg[p].exists))
    /\ UNCHANGED <<fsvars, arg, target, willUnlink, xres, cmds, warn, touched,
                   budget, env, snap, prev, overlap, vvars, gvars>>

\* main, lines 208-213, and apt_install
AptInstall(p) ==
    /\ pc[p] = "apt"
    /\ IF arg[p].no_apt
       THEN /\ Goes(p, "root")
            /\ UNCHANGED <<cmds, warn>>
       ELSE \E o1 \in env.outcomes, o2 \in env.outcomes :
              LET e == Raised(FirstFailure(o1, o2))
                  caught == Catches("CalledProcessError", e)
              IN  /\ cmds' = [cmds EXCEPT ![p] = @ \cup {"apt-get update"}
                                 \cup (IF o1 = "ok" THEN {"apt-get install"} ELSE {})]
                  /\ warn' = [warn EXCEPT ![p] = IF caught THEN @ \cup {"apt"} ELSE @]
                  /\ Step(p, IF caught THEN "none" ELSE e, "root")
    /\ UNCHANGED <<fsvars, arg, target, willUnlink, xres, touched,
                   budget, env, snap, prev, overlap, vvars, gvars>>

\* main, lines 215-230, and is_nosuid
ChooseRoot(p) ==
    /\ pc[p] = "root"
    /\ parentDir' = TRUE
    /\ \E o \in env.outcomes, nosuid \in env.nosuid :
         /\ cmds' = [cmds EXCEPT ![p] = @ \cup {"findmnt"}]
         /\ warn' = [warn EXCEPT ![p] = IF o = "ok" /\ nosuid THEN @ \cup {"nosuid"} ELSE @]
    /\ touched' = [touched EXCEPT ![p] = IF rootDir \/ parentDir THEN @ ELSE @ \cup {"parent"}]
    /\ Goes(p, "copy")
    /\ UNCHANGED <<dirs, current, wrapper, icon, desktop, rootDir, work, arg, target,
                   willUnlink, xres, budget, env, snap, prev, overlap, vvars, gvars>>

\* copy_to_exec_tmp
CopyToExecTmp(p) ==
    /\ pc[p] = "copy"
    /\ work' = arg[p].appimage.name
    /\ Goes(p, "extract")
    /\ UNCHANGED <<dirs, current, wrapper, icon, desktop, rootDir, parentDir, arg, target,
                   willUnlink, xres, cmds, warn, touched, budget, env, snap, prev, overlap, vvars, gvars>>

\* extract_appimage, lines 109-122: the bundle extracts itself into a fresh
\* temporary directory; made says whether squashfs-root is there afterwards
\* (never when the bundle could not be started)
RunExtract(p) ==
    /\ pc[p] = "extract"
    /\ \E o \in env.outcomes, made \in BOOLEAN :
         /\ o = "nolaunch" => ~made
         /\ xres' = [xres EXCEPT ![p] = [o |-> o, made |-> made]]
         /\ cmds' = [cmds EXCEPT ![p] = @ \cup {"appimage-extract"}]
         /\ LET version == derive_version(arg[p].appimage.name)
                e == ExtractError(o, made)
            IN  /\ target' = [target EXCEPT ![p] = IF e = "none" THEN target_dir(version) ELSE @]
                /\ Step(p, e, IF NeedsRmtree(dirs[target_dir(version)]) THEN "rmtree" ELSE "mkdirs")
    /\ UNCHANGED <<fsvars, arg, willUnlink, warn, touched, budget, env, snap, prev, overlap, vvars, gvars>>

\* shutil.rmtree(target_dir), line 123: first the entries of the directory
RmtreeFiles(p) ==
    /\ pc[p] = "rmtree"
    /\ IF dirs[target[p]].dir
       THEN /\ dirs' = [dirs EXCEPT ![target[p]] = EmptyDir]
            /\ touched' = [touched EXCEPT ![p] = @ \cup {"versiondir"}]
            /\ Goes(p, "rmdir")
       ELSE /\ Ends(p, "FileNotFoundError")
            /\ UNCHANGED <<dirs, touched>>
    /\ UNCHANGED <<current, wrapper, icon, desktop, rootDir, parentDir, work, arg, target,
                   willUnlink, xres, cmds, warn, budget, env, snap, prev, overlap, vvars, gvars>>

\* shutil.rmtree(target_dir), line 123: then the directory itself
Rmdir(p) ==
    /\ pc[p] = "rmdir"
    /\ IF dirs[target[p]] = EmptyDir
       THEN /\ dirs' = [dirs EXCEPT ![target[p]] = NoDir]
            /\ Goes(p, "mkdirs")
       ELSE /\ Ends(p, IF dirs[target[p]].dir THEN "OSError" ELSE "FileNotFoundError")
            /\ UNCHANGED dirs
    /\ UNCHANGED <<current, wrapper, icon, desktop, rootDir, parentDir, work, arg, target,
                   willUnlink, xres, cmds, warn, touched, budget, env, snap, prev, overlap, vvars, gvars>>

\* shutil.copytree(extracted, target_dir), line 124: os.makedirs(dst)
CopytreeMkdir(p) ==
    /\ pc[p] = "mkdirs"
    /\ IF dirs[target[p]].dir
       THEN /\ Ends(p, "FileExistsError")
            /\ UNCHANGED <<dirs, rootDir, touched>>
       ELSE /\ dirs' = [dirs EXCEPT ![target[p]] = EmptyDir]
            /\ rootDir' = TRUE
            /\ touched' = [touched EXCEPT ![p] = @ \cup {"versiondir"}]
            /\ Goes(p, "copy1")
    /\ UNCHANGED <<current, wrapper, icon, desktop, parentDir, work, arg, target,
                   willUnlink, xres, cmds, warn, budget, env, snap, prev, overlap, vvars, gvars>>

\* shutil.copytree(extracted, target_dir), line 124: the first entry
CopytreeAppRun(p) ==
    /\ pc[p] = "copy1"
    /\ IF dirs[target[p]].dir
       THEN /\ dirs' = [dirs EXCEPT ![target[p]] = WithAppRun(@, arg[p].appimage)]
            /\ Goes(p, "copy2")
       ELSE /\ Ends(p, "FileNotFoundError")
            /\ UNCHANGED dirs
    /\ UNCHANGED <<current, wrapper, icon, desktop, rootDir, parentDir, work, arg, target,
                   willUnlink, xres, cmds, warn, touched, budget, env, snap, prev, overlap, vvars, gvars>>

\* shutil.copytree(extracted, target_dir), line 124: the other entries
CopytreeRest(p) ==
    /\ pc[p] = "copy2"
    /\ IF dirs[target[p]].dir
       THEN /\ dirs' = [dirs EXCEPT ![target[p]] = WithRest(@, arg[p].appimage)]
            /\ Goes(p, "suid")
       ELSE /\ Ends(p, "FileNotFoundError")
            /\ UNCHANGED dirs
    /\ UNCHANGED <<current, wrapper, icon, desktop, rootDir, parentDir, work, arg, target,
                   willUnlink, xres, cmds, warn, touched, budget, env, snap, prev, overlap, vvars, gvars>>

\* main, lines 236-241, and ensure_suid_sandbox
EnsureSuidSandbox(p) ==
    /\ pc[p] = "suid"
    /\ IF dirs[target[p]].sbx # "none"
       THEN \E o1 \in env.outcomes, o2 \in env.outcomes :
              LET e == Raised(FirstFailure(o1, o2))
                  caught == Catches("CalledProcessError", e)
              IN  /\ cmds' = [cmds EXCEPT ![p] = @ \cup {"sudo chown"}
                                 \cup (IF o1 = "ok" THEN {"sudo chmod"} ELSE {})]
                  /\ dirs' = [dirs EXCEPT ![target[p]].sbx =
                                 IF o1 = "ok" /\ o2 = "ok" THEN "root4755"
                                 ELSE IF o1 = "ok" THEN "root" ELSE @]
                  /\ warn' = [warn EXCEPT ![p] = IF caught THEN @ \cup {"suid"} ELSE @]
                  /\ Step(p, IF caught THEN "none" ELSE e, "mklink")
       ELSE /\ warn' = [warn EXCEPT ![p] = @ \cup {"nosandbox"}]
            /\ Goes(p, "mklink")
            /\ UNCHANGED <<dirs, cmds>>
    /\ UNCHANGED <<current, wrapper, icon, desktop, rootDir, parentDir, work, arg, target,
                   willUnlink, xres, touched, budget, env, snap, prev, overlap, vvars, gvars>>

\* make_symlink_current, lines 137-138: the test
CheckCurrent(p) ==
    /\ pc[p] = "mklink"
    /\ willUnlink' = [willUnlink EXCEPT ![p] = NeedsUnlink(current)]
    /\ Goes(p, IF NeedsUnlink(current) THEN "unlink" ELSE "symlink")
    /\ UNCHANGED <<fsvars, arg, target, xres, cmds, warn, touched, budget, env, snap,
                   prev, overlap, vvars, gvars>>

\* make_symlink_current, line 139: current.unlink()
Unlink(p) ==
    /\ pc[p] = "unlink"
    /\ IF current # NoLink
       THEN /\ current' = NoLink
            /\ touched' = [touched EXCEPT ![p] = @ \cup {"current"}]
            /\ Goes(p, "symlink")
       ELSE /\ Ends(p, "FileNotFoundError")
            /\ UNCHANGED <<current, touched>>
    /\ UNCHANGED <<dirs, wrapper, icon, desktop, rootDir, parentDir, work, arg, target,
                   willUnlink, xres, cmds, warn, budget, env, snap, prev, overlap, vvars, gvars>>

\* make_symlink_current, line 140: current.symlink_to(target_dir.name)
SymlinkTo(p) ==
    /\ pc[p] = "symlink"
    /\ IF current = NoLink
       THEN /\ current' = target[p]
            /\ touched' = [touched EXCEPT ![p] = @ \cup {"current"}]
            /\ Goes(p, "wrapper")
       ELSE /\ Ends(p, "FileExistsError")
            /\ UNCHANGED <<current, touched>>
    /\ UNCHANGED <<dirs, wrapper, icon, desktop, rootDir, parentDir, work, arg, target,
                   willUnlink, xres, cmds, warn, budget, env, snap, prev, overlap, vvars, gvars>>

\* create_wrapper, and the test of line 250
CreateWrapper(p) ==
    /\ pc[p] = "wrapper"
    /\ wrapper' = TRUE
    /\ touched' = [touched EXCEPT ![p] = @ \cup {"wrapper"}]
    /\ Goes(p, IF arg[p].make_desktop THEN "icon" ELSE "finish")
    /\ UNCHANGED <<dirs, current, icon, desktop, rootDir, parentDir, work, arg, target,
                   willUnlink, xres, cmds, warn, budget, env, snap, prev, overlap, vvars, gvars>>

\* install_icon
InstallIcon(p) ==
    /\ pc[p] = "icon"
    /\ IF dirs[target[p]].dirIcon
       THEN /\ icon' = dirs[target[p]].src
            /\ touched' = [touched EXCEPT ![p] = @ \cup {"icon"}]
            /\ UNCHANGED warn
       ELSE /\ warn' = [warn EXCEPT ![p] = @ \cup {"noicon"}]
            /\ UNCHANGED <<icon, touched>>
    /\ Goes(p, "desktop")
    /\ UNCHANGED <<dirs, current, wrapper, desktop, rootDir, parentDir, work, arg, target,
                   willUnlink, xres, cmds, budget, env, snap, prev, overlap, vvars, gvars>>

\* create_desktop_entry: the entry, then each cache refresher that
\* shutil.which finds, whatever it raises being passed over
CreateDesktopEntry(p) ==
    /\ pc[p] = "desktop"
    /\ desktop' = TRUE
    /\ touched' = [touched EXCEPT ![p] = @ \cup {"desktop"}]
    /\ \E w1 \in BOOLEAN, w2 \in BOOLEAN, o1 \in env.outcomes, o2 \in env.outcomes :
         /\ cmds' = [cmds EXCEPT ![p] = @
                        \cup (IF w1 THEN {"update-desktop-database"} ELSE {})
                        \cup (IF w2 THEN {"gtk-update-icon-cache"} ELSE {})]
         /\ Step(p, IF \A o \in {o1, o2} : Catches("Exception", Raised(o)) \/ o = "ok"
                    THEN "none" ELSE "Exception", "finish")
    /\ UNCHANGED <<dirs, current, wrapper, icon, rootDir, parentDir, work, arg, target,
                   willUnlink, xres, warn, budget, env, snap, prev, overlap, vvars, gvars>>

\* main, lines 253-262: the closing messages, exit status 0
Finish(p) ==
    /\ pc[p] = "finish"
    /\ pc' = [pc EXCEPT ![p] = "done"]
    /\ exit' = [exit EXCEPT ![p] = "zero"]
    /\ last' = [ok |-> TRUE, ver |-> target[p]]
    /\ UNCHANGED <<fsvars, arg, target, willUnlink, xres, err, cmds, warn, touched,
                   budget, env, snap, prev, overlap, vvars, gvars>>

(***************************************************************************)
(* setup-gpg-config.py: ConfigCommand                                      *)
(***************************************************************************)
MaxGitRuns == 2

Whitespace == {" ", "\t", "\n"}

RECURSIVE LStrip(_)
LStrip(s) == IF s # <<>> /\ Head(s) \in Whitespace THEN LStrip(Tail(s)) ELSE s

RECURSIVE RStrip(_)
RStrip(s) == IF s # <<>> /\ s[Len(s)] \in Whitespace
             THEN RStrip(SubSeq(s, 1, Len(s) - 1)) ELSE s

\* str.strip()
Strip(s) == RStrip(LStrip(s))

\* str.rstrip("/")
RECURSIVE RStripSlash(_)
RStripSlash(s) == IF s # <<>> /\ s[Len(s)] = "/"
                  THEN RStripSlash(SubSeq(s, 1, Len(s) - 1)) ELSE s

\* str.split("/"): the pieces between the slashes
RECURSIVE SplitSlash(_, _)
SplitSlash(s, acc) ==
    IF s = <<>> THEN <<acc>>
    ELSE IF Head(s) = "/" THEN <<acc>> \o SplitSlash(Tail(s), <<>>)
    ELSE SplitSlash(Tail(s), Append(acc, Head(s)))

\* os.path.basename: what follows the last slash
RECURSIVE basename(_)
basename(s) ==
    IF s = <<>> THEN <<>>
    ELSE IF s[Len(s)] = "/" THEN <<>>
    ELSE Append(basename(SubSeq(s, 1, Len(s) - 1)), s[Len(s)])

\* Path.home(), and the directory the script is started in
Home == <<"/", "h">>
Cwd == <<"/", "h">>

\* Path.resolve() on a tree without symbolic links: empty and "." parts go,
\* ".." takes the part before it away
RECURSIVE Normal(_, _)
Normal(parts, acc) ==
    IF parts = <<>> THEN acc
    ELSE IF Head(parts) \in {<<>>, <<".">>} THEN Normal(Tail(parts), acc)
    ELSE IF Head(parts) = <<".", ".">>
         THEN Normal(Tail(parts), IF acc = <<>> THEN acc ELSE SubSeq(acc, 1, Len(acc) - 1))
    ELSE Normal(Tail(parts), Append(acc, Head(parts)))

RECURSIVE JoinSlash(_)
JoinSlash(parts) == IF parts = <<>> THEN <<>> ELSE <<"/">> \o Head(parts) \o JoinSlash(Tail(parts))

\* Path.expanduser(): a leading ~ part is the home directory
ExpandUser(path) ==
    LET parts == SplitSlash(path, <<>>)
    IN  IF Head(parts) = <<"~">> THEN Home \o SubSeq(path, 2, Len(path)) ELSE path

\* expand_home: str(Path(path).expanduser().resolve())
expand_home(path) ==
    LET p == ExpandUser(path)
        abs == IF p # <<>> /\ Head(p) = "/" THEN p ELSE Cwd \o <<"/">> \o p
        parts == Normal(SplitSlash(abs, <<>>), <<>>)
    IN  IF parts = <<>> THEN <<"/">> ELSE JoinSlash(parts)

\* run, lines 26-28: the fragment file of a folder
custom_config_path(folder) ==
    Home \o <<"/">> \o <<".", "g", "i", "t", "c", "o", "n", "f", "i", "g", "-">> \o basename(RStripSlash(folder))

NoTextFile == [exists |-> FALSE, text |-> <<>>]
TextFile(t) == [exists |-> TRUE, text |-> t]

\* build_custom_config, lines 44-51: the content of the fragment
config_content(key_id, name, email) ==
    <<"[", "u", "s", "e", "r", "]", "\n">>
    \o <<"\t", "s", "i", "g", "n", "i", "n", "g", "k", "e", "y", " ", "=",
       " ">> \o key_id \o <<"\n">>
    \o (IF name # <<>> THEN <<"\t", "n", "a", "m", "e", " ", "=", " ">> \o name \o <<"\n">> ELSE <<>>)
    \o (IF email # <<>> THEN <<"\t", "e", "m", "a", "i", "l", " ", "=", " ">> \o email \o <<"\n">> ELSE <<>>)
    \o <<"[", "c", "o", "m", "m", "i", "t", "]", "\n">>
    \o <<"\t", "g", "p", "g", "s", "i", "g", "n", " ", "=", " ", "t", "r",
       "u", "e", "\n">>

\* add_custom_config_into_main, lines 60-62
include_block(folder, path) ==
    <<"[", "i", "n", "c", "l", "u", "d", "e", "I", "f", " ", "\"", "g",
       "i", "t", "d", "i", "r", ":">> \o folder
    \o <<"/", "\"", "]", "\n", "\t", "p", "a", "t", "h", " ", "=", " ">>
    \o path \o <<"\n">>

\* a plausible slip: the block is appended without looking for it
add_custom_config_always(file, path, folder) ==
    TextFile((IF file.exists THEN file.text ELSE <<>>)
             \o <<"\n">> \o include_block(folder, path))

\* add_custom_config_into_main, lines 63-74: the file after the call
add_custom_config_into_main(file, path, folder) ==
    LET existing == IF file.exists THEN file.text ELSE <<>>
    IN  IF ~Contains(existing, include_block(folder, path))
        THEN TextFile(existing \o <<"\n">> \o include_block(folder, path))
        ELSE file

\* what is typed at the prompts
FolderAnswers == { <<>>, <<" ">>,
                   <<"/", "w", "/", "p">>, <<"/", "w", "/", "p", "/", " ">>,
                   <<"/", "w", "/", ".", "/", "q">>, <<"/", "x", "/", "p">> }
KeyAnswers == { <<>>, <<"A">>, <<"B", " ">> }
NameAnswers == { <<>>, <<"n">> }
EmailAnswers == { <<" ">>, <<"e">> }

Folders == { expand_home(Strip(a)) : a \in { x \in FolderAnswers : Strip(x) # <<>> } }
FragPaths == { custom_config_path(f) : f \in Folders }

NoAnswers == [folder |-> <<>>, key_id |-> <<>>, name |-> <<>>, email |-> <<>>]
NoRun == [run |-> FALSE, key_id |-> <<>>, name |-> <<>>, email |-> <<>>]

\* what ~/.gitconfig may hold before the first run: nothing, other
\* sections, include blocks of the folders (whole, or short of the final
\* line break as an editor may leave the last line), and two of these in a row
FolderP == <<"/", "w", "/", "p">>
FolderQ == <<"/", "w", "/", "q">>
Pieces ==
    { <<>>,
      <<"[", "a", "]", "\n">>,
      include_block(FolderP, custom_config_path(FolderP)),
      RStrip(include_block(FolderP, custom_config_path(FolderP))),
      include_block(FolderQ, custom_config_path(FolderQ)) }
InitialConfigs ==
    {NoTextFile} \cup { TextFile(a \o b) : a \in Pieces, b \in Pieces }

\* the prompt loop of lines 8-11: the stripped answer, asked again while a
\* required one is empty
Prompted(answer, optional) ==
    [again |-> Strip(answer) = <<>> /\ ~optional, val |-> Strip(answer)]

GitInit ==
    /\ InstallOff
    /\ VerOff
    /\ gpc = "idle"
    /\ ginput = NoAnswers
    /\ gitconfig \in InitialConfigs
    /\ gcfg0 = gitconfig
    /\ frags = [f \in FragPaths |-> NoTextFile]
    /\ gruns = 0
    /\ gdirs = {}
    /\ glast = [f \in Folders |-> NoRun]
    /\ gout = "none"

\* run, line 17
GitStart ==
    /\ gpc \in {"idle", "done"}
    /\ gruns < MaxGitRuns
    /\ gpc' = "folder"
    /\ ginput' = NoAnswers
    /\ gout' = "none"
    /\ UNCHANGED <<gitconfig, frags, gcfg0, gruns, gdirs, glast, vvars, ivars>>

\* run, lines 19-21
PromptFolder(answer) ==
    /\ gpc = "folder"
    /\ LET r == Prompted(answer, FALSE)
       IN  IF r.again
           THEN UNCHANGED <<gpc, ginput>>
           ELSE /\ ginput' = [ginput EXCEPT !.folder = expand_home(r.val)]
                /\ gpc' = "key"
    /\ UNCHANGED <<gitconfig, frags, gcfg0, gruns, gdirs, glast, gout, vvars, ivars>>

\* run, line 22
PromptKey(answer) ==
    /\ gpc = "key"
    /\ LET r == Prompted(answer, FALSE)
       IN  IF r.again
           THEN UNCHANGED <<gpc, ginput>>
           ELSE /\ ginput' = [ginput EXCEPT !.key_id = r.val]
                /\ gpc' = "name"
    /\ UNCHANGED <<gitconfig, frags, gcfg0, gruns, gdirs, glast, gout, vvars, ivars>>

\* run, line 23
PromptName(answer) ==
    /\ gpc = "name"
    /\ ginput' = [ginput EXCEPT !.name = Prompted(answer, TRUE).val]
    /\ gpc' = "email"
    /\ UNCHANGED <<gitconfig, frags, gcfg0, gruns, gdirs, glast, gout, vvars, ivars>>

\* run, line 24
PromptEmail(answer) ==
    /\ gpc = "email"
    /\ ginput' = [ginput EXCEPT !.email = Prompted(answer, TRUE).val]
    /\ gpc' = "build"
    /\ UNCHANGED <<gitconfig, frags, gcfg0, gruns, gdirs, glast, gout, vvars, ivars>>

\* run, lines 26-31, and build_custom_config: the fragment is written over
BuildCustomConfig ==
    /\ gpc = "build"
    /\ frags' = [frags EXCEPT ![custom_config_path(ginput.folder)] =
                    TextFile(config_content(ginput.key_id, ginput.name, ginput.email))]
    /\ gpc' = "include"
    /\ UNCHANGED <<ginput, gitconfig, gcfg0, gruns, gdirs, glast, gout, vvars, ivars>>

\* run, lines 33-35, and add_custom_config_into_main
AddCustomConfigIntoMain ==
    /\ gpc = "include"
    /\ gitconfig' = add_custom_config_into_main(gitconfig,
                        custom_config_path(ginput.folder), ginput.folder)
    /\ gout' = IF gitconfig' # gitconfig THEN "appended" ELSE "exists"
    /\ gruns' = gruns + 1
    /\ gdirs' = gdirs \cup {ginput.folder}
    /\ glast' = [glast EXCEPT ![ginput.folder] =
                    [run |-> TRUE, key_id |-> ginput.key_id,
                     name |-> ginput.name, email |-> ginput.email]]
    /\ gpc' = "done"
    /\ UNCHANGED <<ginput, frags, gcfg0, vvars, ivars>>

GitNext ==
    \/ GitStart
    \/ \E a \in FolderAnswers : PromptFolder(a)
    \/ \E a \in KeyAnswers : PromptKey(a)
    \/ \E a \in NameAnswers : PromptName(a)
    \/ \E a \in EmailAnswers : PromptEmail(a)
    \/ BuildCustomConfig
    \/ AddCustomConfigIntoMain

GitOff ==
    /\ gpc = "off"
    /\ ginput = NoAnswers
    /\ gitconfig = NoTextFile
    /\ frags = <<>>
    /\ gcfg0 = NoTextFile
    /\ gruns = 0
    /\ gdirs = {}
    /\ glast = <<>>
    /\ gout = "none"

GitSpec == GitInit /\ [][GitNext]_vars

\* one instance of the installer, run again and again on an install root
\* that starts empty
Init ==
    /\ EmptyFs
    /\ ProcInit({1}, MaxRuns)
    /\ env = [lines |-> "any", outcomes |-> Outcomes, nosuid |-> BOOLEAN]
    /\ VerOff
    /\ GitOff

Next ==
    \/ \E p \in Procs, b \in Bundles, ex \in BOOLEAN, na \in BOOLEAN, md \in BOOLEAN :
         StartRun(p, b, ex, na, md)
    \/ \E p \in Procs : CheckAppimage(p)
    \/ \E p \in Procs : AptInstall(p)
    \/ \E p \in Procs : ChooseRoot(p)
    \/ \E p \in Procs : CopyToExecTmp(p)
    \/ \E p \in Procs : RunExtract(p)
    \/ \E p \in Procs : RmtreeFiles(p)
    \/ \E p \in Procs : Rmdir(p)
    \/ \E p \in Procs : CopytreeMkdir(p)
    \/ \E p \in Procs : CopytreeAppRun(p)
    \/ \E p \in Procs : CopytreeRest(p)
    \/ \E p \in Procs : EnsureSuidSandbox(p)
    \/ \E p \in Procs : CheckCurrent(p)
    \/ \E p \in Procs : Unlink(p)
    \/ \E p \in Procs : SymlinkTo(p)
    \/ \E p \in Procs : CreateWrapper(p)
    \/ \E p \in Procs : InstallIcon(p)
    \/ \E p \in Procs : CreateDesktopEntry(p)
    \/ \E p \in Procs : Finish(p)

Spec == Init /\ [][Next]_vars

(***************************************************************************)
(* The installer run again and again by one instance (Spec)                *)
(***************************************************************************)
Ver(p) == derive_version(arg[p].appimage.name)
RootNow == [dirs |-> dirs, current |-> current, rootDir |-> rootDir]
RootAtStart == [dirs |-> snap.dirs, current |-> snap.current, rootDir |-> snap.rootDir]
Succeeded(p) == pc[p] = "done" /\ exit[p] = "zero"

\* C1: whenever the most recent run completed successfully, 'current' is
\* the relative link to exactly the version directory named by the version
\* derived from the bundle just installed, and that directory exists with
\* the bundle's tree (its entry point included) in it.
C1_CurrentPointsToInstalled ==
    Succeeded(1) =>
        /\ current = Ver(1)
        /\ current \in Versions
        /\ Complete(dirs[current])
        /\ dirs[current].src = arg[1].appimage.name

\* a second successful run, on a root where 'current' and a version
\* directory were already there, has repointed 'current'
C1_Witness ==
    /\ Succeeded(1)
    /\ snap.current # NoLink
    /\ snap.current # current
    /\ dirs[snap.current].dir

\* C2: a successful run for V1 followed by a successful run for another
\* version V2 leaves both version directories in place, 'current' at V2,
\* and the tree of V1 exactly as it was before the second run.
C2_PreviousVersionUntouched ==
    (Succeeded(1) /\ prev.ok /\ prev.ver # Ver(1)) =>
        /\ dirs[prev.ver].dir
        /\ dirs[prev.ver] = snap.dirs[prev.ver]
        /\ dirs[Ver(1)].dir
        /\ current = Ver(1)

C2_Witness ==
    /\ Succeeded(1)
    /\ prev.ok
    /\ prev.ver # Ver(1)
    /\ snap.current = prev.ver
    /\ Complete(dirs[prev.ver])

\* C4 (the claim as stated): when the bundle exists and its extraction
\* succeeded, no failure of an advisory step ends the run: it goes on to
\* exit status zero, with the failure printed as a warning.
C4_AdvisoryFailuresNeverAbort ==
    (pc[1] = "done" /\ arg[1].exists /\ xres[1].o = "ok" /\ xres[1].made) =>
        /\ exit[1] = "zero"
        /\ current = Ver(1)
        /\ wrapper

\* C5: a run whose bundle does not exist is over at once with a non-zero
\* status and the not-found message, having invoked no external command
\* and having created or changed nothing.
C5_MissingBundleTouchesNothing ==
    (pc[1] \notin {"idle", "args"} /\ ~arg[1].exists) =>
        /\ pc[1] = "done"
        /\ exit[1] = "nonzero"
        /\ err[1] = "NotFound"
        /\ cmds[1] = {}
        /\ touched[1] = {}
        /\ FsNow = snap

\* such a run, on a root that holds an installation
C5_Witness ==
    /\ pc[1] = "done"
    /\ ~arg[1].exists
    /\ err[1] = "NotFound"
    /\ current # NoLink

\* what the run left of the install root and of the launcher files
LeftAlone(p) ==
    /\ RootNow = RootAtStart
    /\ touched[p] \cap {"versiondir", "current", "wrapper", "icon", "desktop"} = {}
    /\ wrapper = snap.wrapper
    /\ icon = snap.icon
    /\ desktop = snap.desktop

\* C7 (the claim as stated): if the self-extraction leaves no squashfs-root
\* the run ends with the 'Extraction failed' error and a non-zero status,
\* the install root and the launcher files left as they were.
C7_NoSquashfsRootIsExtractionFailed ==
    (pc[1] = "done" /\ xres[1].o # "none" /\ ~xres[1].made) =>
        /\ exit[1] = "nonzero"
        /\ err[1] = "ExtractionFailed"
        /\ LeftAlone(1)

\* C7 (amended): if the self-extraction leaves no squashfs-root the run ends
\* with a non-zero status, by the 'Extraction failed' error when the
\* extraction command itself exited zero and by the error of the subprocess
\* call when it exited non-zero or could not be started; the install root
\* and the launcher files are left as they were.
C7_NoSquashfsRootAborts ==
    (pc[1] = "done" /\ xres[1].o # "none" /\ ~xres[1].made) =>
        /\ exit[1] = "nonzero"
        /\ err[1] = (IF xres[1].o = "ok" THEN "ExtractionFailed"
                     ELSE IF xres[1].o = "nonzero" THEN "CalledProcessError"
                     ELSE "FileNotFoundError")
        /\ LeftAlone(1)

\* the extraction exited zero without squashfs-root, on a root that already
\* holds the version of the bundle
C7_Witness ==
    /\ pc[1] = "done"
    /\ xres[1].o = "ok"
    /\ ~xres[1].made
    /\ err[1] = "ExtractionFailed"
    /\ dirs[Ver(1)].dir
    /\ current # NoLink

\* C8 (the claim as stated): once 'current' exists no step makes it absent.
C8_CurrentNeverAbsent == [][current # NoLink => current' # NoLink]_vars

\* C8 (amended): in a run on a root where 'current' exists, 'current' is
\* absent at exactly one point, between unlink() and symlink_to(); at every
\* other point it names the previous version directory or the new one.
C8_AbsentOnlyBetweenUnlinkAndSymlink ==
    (pc[1] \notin {"idle", "args"} /\ snap.current # NoLink) =>
        IF pc[1] = "symlink"
        THEN current = NoLink
        ELSE current \in {snap.current, Ver(1)} /\ current # NoLink

C8_Witness ==
    /\ pc[1] = "symlink"
    /\ snap.current # NoLink
    /\ current = NoLink
    /\ Complete(dirs[target[1]])

(***************************************************************************)
(* Two instances of the installer on one install root (ConcSpec): each     *)
(* runs main once, their steps interleave, no lock is taken.  The root     *)
(* starts empty or as a successful run left it; both are run with --no-apt *)
(* and --make-desktop=no on bundles that exist, and the external commands  *)
(* succeed, so that what goes wrong is the interleaving alone.             *)
(***************************************************************************)
ConcInit ==
    /\ \/ EmptyFs
       \/ \E l \in ConcLines : InstalledFs(l.appimage)
    /\ ProcInit(Procs, 1)
    /\ env = [lines |-> "plain", outcomes |-> {"ok"}, nosuid |-> {FALSE}]
    /\ VerOff
    /\ GitOff

ConcNext ==
    \/ \E p \in Procs, b \in Bundles, ex \in BOOLEAN, na \in BOOLEAN, md \in BOOLEAN :
         StartRun(p, b, ex, na, md)
    \/ \E p \in Procs : CheckAppimage(p)
    \/ \E p \in Procs : AptInstall(p)
    \/ \E p \in Procs : ChooseRoot(p)
    \/ \E p \in Procs : CopyToExecTmp(p)
    \/ \E p \in Procs : RunExtract(p)
    \/ \E p \in Procs : RmtreeFiles(p)
    \/ \E p \in Procs : Rmdir(p)
    \/ \E p \in Procs : CopytreeMkdir(p)
    \/ \E p \in Procs : CopytreeAppRun(p)
    \/ \E p \in Procs : CopytreeRest(p)
    \/ \E p \in Procs : EnsureSuidSandbox(p)
    \/ \E p \in Procs : CheckCurrent(p)
    \/ \E p \in Procs : Unlink(p)
    \/ \E p \in Procs : SymlinkTo(p)
    \/ \E p \in Procs : CreateWrapper(p)
    \/ \E p \in Procs : Finish(p)

ConcSpec == ConcInit /\ [][ConcNext]_vars

FsErrors == {"FileNotFoundError", "FileExistsError", "OSError"}

\* an instance was ended by a file system error
AbortedOnFs(p) == pc[p] = "done" /\ err[p] \in FsErrors

\* both are over and 'current' is absent, dangling, or names a version
\* directory that is not fully populated
CurrentBroken ==
    /\ \A p \in Procs : pc[p] = "done"
    /\ \E p \in Procs : exit[p] = "zero"
    /\ \/ current = NoLink
       \/ ~Complete(dirs[current])

BadOutcome == (\E p \in Procs : AbortedOnFs(p)) \/ CurrentBroken

\* C9: two instances running at the same time on one install root can reach
\* a bad outcome (the witnesses below), and a bad outcome is reached only
\* when their runs did overlap: one after the other they both succeed.
C9_BadOutcomeOnlyWhenOverlapping == BadOutcome => overlap

\* one instance was ended by a file system error and the other one exited
\* with status zero, leaving 'current' on a tree that lacks entries
C9_Witness ==
    /\ overlap
    /\ CurrentBroken
    /\ \E p \in Procs : AbortedOnFs(p)
    /\ \E p \in Procs : Succeeded(p) /\ current = target[p]

(***************************************************************************)
(* The config writer run again and again (GitSpec)                         *)
(***************************************************************************)
Block(d) == include_block(d, custom_config_path(d))
TextOf(file) == IF file.exists THEN file.text ELSE <<>>

\* the occurrences of t in s, overlapping ones included
Occurrences(s, t) ==
    Cardinality({ i \in 1..(Len(s) - Len(t) + 1) : SubSeq(s, i, i + Len(t) - 1) = t })

EndsWith(s, t) == Len(t) <= Len(s) /\ SubSeq(s, Len(s) - Len(t) + 1, Len(s)) = t

\* the block of d short of its final line break
BlockLessNewline(d) == SubSeq(Block(d), 1, Len(Block(d)) - 1)

\* every completed run so far was for folder d
OnlyRunsFor(d) == gpc = "done" /\ gruns >= 1 /\ gdirs = {d}

\* C3 (the claim as stated): from a ~/.gitconfig that is missing, empty or
\* of any content without the block of folder D, after n >= 1 runs for D the
\* file is the old content, a blank line and the block, with exactly one
\* occurrence of the block, and every run after the first changed nothing.
C3_ExactlyOneBlock ==
    \A d \in Folders :
        (OnlyRunsFor(d) /\ ~Contains(TextOf(gcfg0), Block(d))) =>
            /\ gitconfig = TextFile(TextOf(gcfg0) \o <<"\n">> \o Block(d))
            /\ Occurrences(gitconfig.text, Block(d)) = 1
            /\ gruns >= 2 => gout = "exists"

\* C3 (amended): the same, except that when the old content ends with the
\* block short of its final line break, the line break the first run puts
\* before the block completes a second occurrence: the file then holds two.
C3_OneBlockUnlessUnterminated ==
    \A d \in Folders :
        (OnlyRunsFor(d) /\ ~Contains(TextOf(gcfg0), Block(d))) =>
            /\ gitconfig = TextFile(TextOf(gcfg0) \o <<"\n">> \o Block(d))
            /\ Occurrences(gitconfig.text, Block(d)) =
                 (IF EndsWith(TextOf(gcfg0), BlockLessNewline(d)) THEN 2 ELSE 1)
            /\ gruns >= 2 => gout = "exists"

\* two runs for one folder on a file that held other content
C3_Witness ==
    \E d \in Folders :
        /\ OnlyRunsFor(d)
        /\ gruns >= 2
        /\ gcfg0.exists
        /\ gcfg0.text # <<>>
        /\ ~Contains(gcfg0.text, Block(d))
        /\ Occurrences(gitconfig.text, Block(d)) = 1

\* C10 (the claim as stated): every include block in ~/.gitconfig, of a
\* folder the writer was run for, refers to a fragment file holding the
\* answers of the latest run for that folder.
C10_FragmentBelongsToItsFolder ==
    \A d \in Folders :
        (gpc = "done" /\ glast[d].run /\ Contains(TextOf(gitconfig), Block(d))) =>
            frags[custom_config_path(d)] =
                TextFile(config_content(glast[d].key_id, glast[d].name, glast[d].email))

(***************************************************************************)
(* derive_version applied to every short file name (VerSpec)               *)
(***************************************************************************)
MaxNameLen == 7

NameChars == {"1", "2", ".", "x"}
Names == UNION { [1..n -> NameChars] : n \in 0..MaxNameLen }

VerInit ==
    /\ vname \in Names
    /\ vres = <<>>
    /\ vdone = FALSE
    /\ InstallOff
    /\ GitOff

Derive ==
    /\ ~vdone
    /\ vres' = derive_version(vname)
    /\ vdone' = TRUE
    /\ UNCHANGED <<vname, ivars, gvars>>

VerNext == Derive

VerSpec == VerInit /\ [][VerNext]_vars

\* t is digits '.' digits '.' digits
IsVersion(t) ==
    \E i \in 2..(Len(t) - 3), j \in 4..(Len(t) - 1) :
        /\ i + 1 < j
        /\ t[i] = "." /\ t[j] = "."
        /\ \A k \in (1..Len(t)) \ {i, j} : t[k] \in Digits

VersionsIn(s) ==
    { ij \in (1..Len(s)) \X (1..Len(s)) : IsVersion(SubSeq(s, ij[1], ij[2])) }

\* C6: the label is a dotted three-part number contained in the file name,
\* the leftmost one (and at that place the longest), and it is 'unknown'
\* exactly when the file name contains none.
C6_LeftmostVersionOrUnknown ==
    vdone =>
        /\ (VersionsIn(vname) = {}) <=> (vres = Unknown)
        /\ VersionsIn(vname) # {} =>
             \E ij \in VersionsIn(vname) :
                /\ vres = SubSeq(vname, ij[1], ij[2])
                /\ \A o \in VersionsIn(vname) :
                      o[1] > ij[1] \/ (o[1] = ij[1] /\ o[2] <= ij[2])

\* a name with two numbers, the second one not the first
C6_Witness ==
    /\ vdone
    /\ \E a \in VersionsIn(vname), b \in VersionsIn(vname) :
          /\ a[1] < b[1]
          /\ SubSeq(vname, a[1], a[2]) # SubSeq(vname, b[1], b[2])
          /\ vres = SubSeq(vname, a[1], a[2])

====
